---- MODULE Spec2Model ----
(***************************************************************************)
(* State-machine model of the sweepzy-be detection-and-grouping pipeline:  *)
(* the upload dedupe gate (api/uploads/uploads_routes.py), radius          *)
(* attachment (api/litter_reports/litter_reports_service.py), cluster      *)
(* suggestion and materialization (api/litter_groups/                      *)
(* litter_groups_service.py), cleanup-event creation (api/cleanup_events/  *)
(* cleanup_events_service.py) and the object detector (api/                *)
(* litter_detections/litter_detections_service.py).                        *)
(*                                                                         *)
(* Rows are records held in sequences; a row's id is its index and 0 is    *)
(* SQL NULL.  Points are <<x, y>> = (longitude, latitude) offsets, in      *)
(* units of 0.0001 degree, from a base point at 60 degrees north.          *)
(***************************************************************************)
EXTENDS Integers, Sequences, FiniteSets, TLC

VARIABLES reports, fingerprints, groups, events, detections, now, ticks, resp,
          job, faiss, ort, reqs

vars == <<reports, fingerprints, groups, events, detections, now, ticks, resp,
          job, faiss, ort, reqs>>

(* ------------------------------ bounds -------------------------------- *)
MaxReports == 3
MaxGroups == 2
MaxEvents == 1
MaxTicks == 2

(* --------------------------- basic values ----------------------------- *)
NULL == 0
NoGeom == <<>>

\* the requesting user and the system user reconcile_clusters creates groups as
Users == {1}
SystemUserId == 23

\* claimed points of submissions: the corners of a small triangle
ReportPoints == {<<0, 0>>, <<3, 0>>, <<0, -3>>}
\* group names: <<"Cluster", k>> is the string f"Cluster {k}"
ClusterName(k) == <<"Cluster", k>>
GroupNames == {<<"Site A", 0>>}

(* ----------------------------- geometry ------------------------------- *)
\* True ground distance (squared, in decimetres squared) between two points
\* near 60 N: one unit of latitude is 11.1 m, one unit of longitude 5.6 m.
GroundDistSq(p, q) ==
    LET dx == 56 * (p[1] - q[1])
        dy == 111 * (p[2] - q[2])
    IN dx * dx + dy * dy

\* ST_Distance / ST_DWithin on geometry(POINT, 4326): planar distance in
\* the units of the SRID, that is in degrees (squared, in units squared).
DegDistSq(p, q) ==
    LET dx == p[1] - q[1]
        dy == p[2] - q[2]
    IN dx * dx + dy * dy

UnitsPerDegreeSq == 100000000

\* ST_DWithin(geom, point, radius) on geometry columns: radius is taken in
\* degrees.  d <= radius  <=>  n <= radius^2 * 10^8, written without
\* leaving 32-bit range.
ST_DWithin(g, p, radius) ==
    /\ g # NoGeom
    /\ LET n == DegDistSq(g, p)
       IN \/ n \div UnitsPerDegreeSq < radius * radius
          \/ n \div UnitsPerDegreeSq = radius * radius /\ n % UnitsPerDegreeSq = 0

\* ST_Transform(geom, 3857): Web-Mercator metres.  At 60 N the projection
\* stretches both axes by 1/cos(60) = 2: one unit of longitude is 11.1 m
\* and one unit of latitude 22.3 m of projected distance (squared, dm^2).
MercatorDistSq(p, q) ==
    LET dx == 111 * (p[1] - q[1])
        dy == 223 * (p[2] - q[2])
    IN dx * dx + dy * dy

(* ------------------------------ severity ------------------------------ *)
NoSize == <<>>

RECURSIVE BoxesArea(_)
\* sum over the boxes of max(0, x2 - x1) * max(0, y2 - y1)
BoxesArea(boxes) ==
    IF boxes = <<>> THEN 0
    ELSE LET b == Head(boxes)
             w == IF b[3] - b[1] > 0 THEN b[3] - b[1] ELSE 0
             h == IF b[4] - b[2] > 0 THEN b[4] - b[2] ELSE 0
         IN w * h + BoxesArea(Tail(boxes))

CountSeverity(total_count) ==
    IF total_count < 5 THEN "low"
    ELSE IF total_count < 15 THEN "medium"
    ELSE "high"

\* the density rule without its `severity == "low"` test: a density between 5%
\* and 10% sets medium whatever the count level
DetermineSeverityDowngrading(total_count, bounding_boxes, image_size) ==
    IF total_count = 0 THEN "none"
    ELSE LET severity == CountSeverity(total_count)
         IN IF image_size # NoSize /\ bounding_boxes # <<>>
                  /\ image_size[1] * image_size[2] > 0
            THEN LET img_area == image_size[1] * image_size[2]
                     boxes_area == BoxesArea(bounding_boxes)
                 IN IF boxes_area * 10 > img_area THEN "high"
                    ELSE IF boxes_area * 20 > img_area THEN "medium"
                    ELSE severity
            ELSE severity

\* density > 0.10 is boxes_area * 10 > img_area; > 0.05 is boxes_area * 20 > img_area
DetermineSeverity(total_count, bounding_boxes, image_size) ==
    IF total_count = 0 THEN "none"
    ELSE LET severity == CountSeverity(total_count)
         IN IF image_size # NoSize /\ bounding_boxes # <<>>
                  /\ image_size[1] * image_size[2] > 0
            THEN LET img_area == image_size[1] * image_size[2]
                     boxes_area == BoxesArea(bounding_boxes)
                 IN IF boxes_area * 10 > img_area /\ severity # "high" THEN "high"
                    ELSE IF boxes_area * 20 > img_area /\ severity = "low" THEN "medium"
                    ELSE severity
            ELSE severity

(* ------------------------------- rows --------------------------------- *)
\* detection_results of a report: null, or the JSON payload's status, error
\* message and count
NoResults == [status |-> "null", error |-> "", total |-> 0]

\* a LitterReport row as create_litter_report inserts it
NewReport(pos, t) ==
    [pos |-> pos, created_at |-> t, group_id |-> NULL, is_grouped |-> FALSE,
     event_id |-> NULL, status |-> "pending", is_detected |-> FALSE,
     severity |-> "null", results |-> NoResults]

NewGroup(name, geom, locked, user) ==
    [name |-> name, geom |-> geom, is_locked |-> locked, created_by |-> user,
     report_count |-> 0, severity |-> "null"]

ReportIds == 1..Len(reports)
\* the row a deleted group leaves behind: its id is not given out again
DeletedGroup == NewGroup(<<"deleted", 0>>, NoGeom, FALSE, NULL)

GroupIds == {g \in 1..Len(groups) : groups[g] # DeletedGroup}

\* the Reports whose group_id is g
Members(rs, g) == {r \in 1..Len(rs) : rs[r].group_id = g}

NoResp == [op |-> "none", code |-> 0, reason |-> "", ids |-> {}, args |-> <<>>]

Resp(op, code) == [NoResp EXCEPT !.op = op, !.code = code]

\* a call of determine_severity: the arguments and the level returned
DetermineSeverityCall(total_count, bounding_boxes, image_size) ==
    /\ resp' = [Resp("determine_severity", 0) EXCEPT
                   !.reason = DetermineSeverity(total_count, bounding_boxes, image_size),
                   !.args = <<total_count, bounding_boxes, image_size>>]
    /\ UNCHANGED <<reports, fingerprints, groups, events, detections, now, ticks,
                   job, faiss, ort, reqs>>

(* -------------------------- radius attachment ------------------------- *)
RadiusAttachM == 500

\* _assign_to_nearest_group: the ids the SELECT ... ORDER BY ST_Distance LIMIT 1
\* can return ({NULL} when no row matches); ties are broken arbitrarily.
AssignToNearestGroup(gs, p, radius) ==
    LET cand == {g \in 1..Len(gs) : ST_DWithin(gs[g].geom, p, radius)}
    IN IF cand = {} THEN {NULL}
       ELSE {g \in cand : \A h \in cand :
                DegDistSq(gs[g].geom, p) <= DegDistSq(gs[h].geom, p)}

\* create_litter_report: insert the row, set geom, attach to the nearest group
CreateLitterReportRows(rs, gs, pos, t) ==
    {Append(rs, [NewReport(pos, t) EXCEPT !.group_id = g, !.is_grouped = (g # NULL)]) :
        g \in AssignToNearestGroup(gs, pos, RadiusAttachM)}

CreateLitterReport(pos) ==
    /\ Len(reports) < MaxReports
    /\ \E rs \in CreateLitterReportRows(reports, groups, pos, now) :
          /\ reports' = rs
          /\ resp' = Resp("create_litter_report", 201)
    /\ UNCHANGED <<fingerprints, groups, events, detections, now, ticks, job, faiss, ort, reqs>>

(* ------------------------------ group CRUD ---------------------------- *)
CreateGroup(u, name, pos) ==
    /\ Len(groups) < MaxGroups
    /\ groups' = Append(groups, NewGroup(name, pos, FALSE, u))
    /\ resp' = Resp("create_group", 200)
    /\ UNCHANGED <<reports, fingerprints, events, detections, now, ticks, job, faiss, ort, reqs>>

Unset == <<"unset">>

\* an update that also clears the lock
UpdateGroupRowUnlocking(grp, name, pos) ==
    [grp EXCEPT !.name = IF name = Unset THEN @ ELSE name,
                !.geom = IF pos = Unset THEN @ ELSE pos,
                !.is_locked = FALSE]

\* update_group: only the fields of LitterGroupUpdate can be set (name, lat/lng
\* here); a group that is missing or not the caller's gives 404.
UpdateGroupRow(grp, name, pos) ==
    [grp EXCEPT !.name = IF name = Unset THEN @ ELSE name,
                !.geom = IF pos = Unset THEN @ ELSE pos]

UpdateGroup(u, g, name, pos) ==
    /\ IF g \in GroupIds /\ groups[g].created_by = u
       THEN /\ groups' = [groups EXCEPT ![g] = UpdateGroupRow(groups[g], name, pos)]
            /\ resp' = Resp("update_group", 200)
       ELSE /\ UNCHANGED groups
            /\ resp' = Resp("update_group", 404)
    /\ UNCHANGED <<reports, fingerprints, events, detections, now, ticks, job, faiss, ort, reqs>>

\* delete_group: 404 unless the group is the user's.  db.delete(group) sets
\* group_id of the group's reports to NULL (the litter_reports relationship
\* has no delete cascade) and deletes its cleanup events (cascade "all,
\* delete-orphan"); a report whose event_id points at one of them makes the
\* flush fail on the foreign key, and nothing is deleted.
DeleteGroup(u, g) ==
    /\ LET evs == {e \in 1..Len(events) : events[e].litter_group_id = g}
       IN IF g \notin GroupIds \/ groups[g].created_by # u
          THEN /\ resp' = Resp("delete_group", 404)
               /\ UNCHANGED <<reports, groups, events>>
          ELSE IF \E r \in ReportIds : reports[r].event_id \in evs
          THEN /\ resp' = Resp("delete_group", 500)
               /\ UNCHANGED <<reports, groups, events>>
          ELSE /\ groups' = [groups EXCEPT ![g] = DeletedGroup]
               /\ events' = [e \in 1..Len(events) |->
                                IF e \in evs THEN [litter_group_id |-> NULL]
                                ELSE events[e]]
               /\ reports' = [r \in ReportIds |->
                                 IF reports[r].group_id = g
                                 THEN [reports[r] EXCEPT !.group_id = NULL]
                                 ELSE reports[r]]
               /\ resp' = Resp("delete_group", 200)
    /\ UNCHANGED <<fingerprints, detections, now, ticks, job, faiss, ort, reqs>>

(* ------------------------- cluster suggestions ------------------------ *)
\* DBSCAN(eps=500.0, min_samples=3) over the EPSG:3857 coordinates
EpsDm == 5000
MinPts == 3

EpsNeighbours(rs, i) ==
    {j \in 1..Len(rs) : MercatorDistSq(rs[i].pos, rs[j].pos) <= EpsDm * EpsDm}

IsCore(rs, i) == Cardinality(EpsNeighbours(rs, i)) >= MinPts

RECURSIVE Grow(_, _, _)
\* the unlabelled points density-reachable from the points of S
Grow(rs, lab, S) ==
    LET more == {j \in 1..Len(rs) :
                    /\ lab[j] = -1
                    /\ \E i \in S : IsCore(rs, i) /\ j \in EpsNeighbours(rs, i)}
    IN IF more \subseteq S THEN S ELSE Grow(rs, lab, S \cup more)

RECURSIVE DbscanLabels(_, _, _, _)
\* labels in row order: the k-th unlabelled core point met starts cluster k
DbscanLabels(rs, i, lab, k) ==
    IF i > Len(rs) THEN lab
    ELSE IF lab[i] # -1 \/ ~IsCore(rs, i) THEN DbscanLabels(rs, i + 1, lab, k)
    ELSE LET C == Grow(rs, lab, {i})
         IN DbscanLabels(rs, i + 1,
                         [j \in 1..Len(rs) |-> IF j \in C THEN k ELSE lab[j]], k + 1)

\* the rows get_cluster_suggestions clusters: every row of litter_reports
\* (the SELECT has no WHERE clause)
ClusterInput(rs) == rs

Collinear(D) ==
    \A p \in D, q \in D, r \in D :
        (q[1] - p[1]) * (r[2] - p[2]) = (q[2] - p[2]) * (r[1] - p[1])

\* geometry type of MultiPoint(D).convex_hull
HullType(D) ==
    IF Cardinality(D) = 1 THEN "Point"
    ELSE IF Collinear(D) THEN "LineString"
    ELSE "Polygon"

RECURSIVE SumCoord(_, _)
SumCoord(D, c) ==
    IF D = {} THEN 0
    ELSE LET p == CHOOSE q \in D : TRUE IN p[c] + SumCoord(D \ {p}, c)

\* centroid of a triangular hull: the mean of its three vertices
HullCentroid(D) ==
    <<SumCoord(D, 1) \div Cardinality(D), SumCoord(D, 2) \div Cardinality(D)>>

GetClusterSuggestions(rs0) ==
    LET rs == ClusterInput(rs0)
        none == [j \in 1..Len(rs) |-> -1]
        lab == IF Len(rs) = 0 THEN none ELSE DbscanLabels(rs, 1, none, 0)
        labels == {lab[j] : j \in 1..Len(rs)} \ {-1}
    IN [k \in 1..Cardinality(labels) |->
          LET mem == {j \in 1..Len(rs) : lab[j] = k - 1}
              pts == {rs[j].pos : j \in mem}
          IN [cluster_id |-> k - 1,
              members |-> mem,
              report_count |-> Cardinality(mem),
              avg_severity |-> DetermineSeverity(Cardinality(mem), <<>>, NoSize),
              hull |-> HullType(pts),
              centroid |-> HullCentroid(pts)]]

\* GET /suggestions: the response lists every suggestion with its report_ids
ListSuggestions ==
    /\ LET sugg == GetClusterSuggestions(reports)
       IN resp' = [Resp("get_cluster_suggestions", 200) EXCEPT
                     !.ids = UNION {sugg[i].members : i \in DOMAIN sugg}]
    /\ UNCHANGED <<reports, fingerprints, groups, events, detections, now, ticks, job, faiss, ort, reqs>>

(* ------------------------ cluster materialization --------------------- *)
\* filter_by(name=name).first(): the same-named group (lowest id), or NULL
GroupNamed(gs, name) ==
    LET same == {g \in 1..Len(gs) : gs[g].name = name}
    IN IF same = {} THEN NULL ELSE CHOOSE g \in same : \A h \in same : g <= h

\* bulk UPDATE litter_reports SET group_id, is_grouped WHERE id IN members
AssignMembers(rs, mem, g) ==
    [r \in 1..Len(rs) |->
        IF r \in mem THEN [rs[r] EXCEPT !.group_id = g, !.is_grouped = TRUE]
        ELSE rs[r]]

RECURSIVE ReconcileLoop(_, _, _, _)
\* the for-loop of reconcile_clusters from suggestion i on.  A new group whose
\* hull is not a polygon cannot be stored in coverage_area (geometry(POLYGON)):
\* the commit raises and the loop ends there, earlier commits standing.
ReconcileLoop(sugg, i, rs, gs) ==
    IF i > Len(sugg) THEN [rs |-> rs, gs |-> gs, code |-> 200]
    ELSE LET s == sugg[i]
             old == GroupNamed(gs, ClusterName(s.cluster_id))
         IN IF old = NULL /\ s.hull # "Polygon"
            THEN [rs |-> rs, gs |-> gs, code |-> 500]
            ELSE LET g == IF old = NULL THEN Len(gs) + 1 ELSE old
                     gs1 == IF old = NULL
                            THEN Append(gs, NewGroup(ClusterName(s.cluster_id),
                                                     s.centroid, FALSE, SystemUserId))
                            ELSE gs
                     gs2 == [gs1 EXCEPT ![g].report_count = s.report_count,
                                        ![g].severity = s.avg_severity]
                 IN ReconcileLoop(sugg, i + 1, AssignMembers(rs, s.members, g), gs2)

ReconcileClusters ==
    LET out == ReconcileLoop(GetClusterSuggestions(reports), 1, reports, groups)
    IN /\ Len(out.gs) <= MaxGroups
       /\ reports' = out.rs
       /\ groups' = out.gs
       /\ resp' = Resp("reconcile_clusters", out.code)
       /\ UNCHANGED <<fingerprints, events, detections, now, ticks, job, faiss, ort, reqs>>

\* POST /create_from_suggestion/{cluster_id}: the controller calls
\* svc.create_group_from_suggestion, an attribute LitterGroupService does not
\* have; the AttributeError leaves the request with a 500 and no row written
CreateFromSuggestion(cluster_id) ==
    /\ resp' = Resp("create_from_suggestion", 500)
    /\ UNCHANGED <<reports, fingerprints, groups, events, detections, now, ticks,
                   job, faiss, ort, reqs>>

(* ---------------------------- cleanup events -------------------------- *)
\* create_event with litter_report_ids: bundle the reports into a new group
\* that is locked from the start
CreateEventFromReports(u, ids) ==
    /\ ids # {}
    /\ Len(groups) < MaxGroups
    /\ Len(events) < MaxEvents
    /\ IF ids \subseteq ReportIds
       THEN LET g == Len(groups) + 1
                e == Len(events) + 1
            IN /\ groups' = Append(groups, NewGroup(<<"auto-group", 0>>, NoGeom, TRUE, u))
               /\ events' = Append(events, [litter_group_id |-> g])
               /\ reports' = [r \in ReportIds |->
                     IF r \in ids
                     THEN [reports[r] EXCEPT !.group_id = g, !.is_grouped = TRUE,
                                             !.event_id = e]
                     ELSE reports[r]]
               /\ resp' = Resp("create_event", 200)
       ELSE /\ UNCHANGED <<groups, events, reports>>
            /\ resp' = Resp("create_event", 404)
    /\ UNCHANGED <<fingerprints, detections, now, ticks, job, faiss, ort, reqs>>

\* create_event with litter_group_id: lock an existing group
CreateEventFromGroup(u, g) ==
    /\ Len(events) < MaxEvents
    /\ IF g \notin GroupIds
       THEN /\ UNCHANGED <<groups, events, reports>>
            /\ resp' = Resp("create_event", 404)
       ELSE IF groups[g].is_locked
       THEN /\ UNCHANGED <<groups, events, reports>>
            /\ resp' = Resp("create_event", 409)
       ELSE LET e == Len(events) + 1
            IN /\ groups' = [groups EXCEPT ![g].is_locked = TRUE]
               /\ events' = Append(events, [litter_group_id |-> g])
               /\ reports' = [r \in ReportIds |->
                     IF reports[r].group_id = g
                     THEN [reports[r] EXCEPT !.event_id = e]
                     ELSE reports[r]]
               /\ resp' = Resp("create_event", 200)
    /\ UNCHANGED <<fingerprints, detections, now, ticks, job, faiss, ort, reqs>>

(* ---------------------------- dedupe gate ----------------------------- *)
\* thresholds of uploads_routes.py; times are in minutes
SPATIAL_RADIUS_M == 50
TEMPORAL_WINDOW_MIN == 30
PHASH_THRESHOLD == 8
WeekMin == 7 * 24 * 60

\* a perceptual hash is the set of the positions (0..63, most significant
\* first) of its one-bits
HashBits == 64
HexDigits == 1..(HashBits \div 4)

\* str(ph): sixteen hex digits, digit i holding bits 4(i-1) .. 4(i-1)+3
HashToHex(bits) ==
    [i \in HexDigits |->
        (IF 4 * (i - 1) \in bits THEN 8 ELSE 0) + (IF 4 * (i - 1) + 1 \in bits THEN 4 ELSE 0)
      + (IF 4 * (i - 1) + 2 \in bits THEN 2 ELSE 0) + (IF 4 * (i - 1) + 3 \in bits THEN 1 ELSE 0)]

\* hex_to_hash(old_hex)
HexToHash(hex) ==
    {b \in 0..(HashBits - 1) :
        LET d == hex[(b \div 4) + 1]
            k == b % 4
        IN (d \div (IF k = 0 THEN 8 ELSE IF k = 1 THEN 4 ELSE IF k = 2 THEN 2 ELSE 1)) % 2 = 1}

\* ph - old_hash: the Hamming distance
Hamming(a, b) == Cardinality((a \ b) \cup (b \ a))

PhashDuplicateStrict(ph, old_hex) == Hamming(ph, HexToHash(old_hex)) < PHASH_THRESHOLD

\* the test of the dedupe loop: (ph - old_hash) <= PHASH_THRESHOLD
PhashDuplicate(ph, old_hex) == Hamming(ph, HexToHash(old_hex)) <= PHASH_THRESHOLD

\* the rows of the SELECT: fingerprints joined to reports of the last week
RecentFingerprints(fps, rs, t) ==
    {i \in 1..Len(fps) : rs[fps[i].report_id].created_at >= t - WeekMin}

PhashDupIds(fps, rs, ph, t) ==
    {fps[i].report_id : i \in {j \in RecentFingerprints(fps, rs, t) :
                                  PhashDuplicate(ph, fps[j].phash)}}

\* find_spatio_temporal (utils/geoutils.py): ids of the reports within radius_m
\* ground metres and window minutes of ts.  The upload route imports it but
\* does not call it.
FindSpatioTemporal(rs, p, ts, radius_m, window) ==
    {r \in 1..Len(rs) :
        /\ rs[r].created_at >= ts - window
        /\ rs[r].created_at <= ts + window
        /\ GroundDistSq(rs[r].pos, p) <= (10 * radius_m) * (10 * radius_m)}

\* a persist step that also rewrites the stored hashes
PersistFingerprintRehashing(fps, rid, ph) ==
    Append([i \in 1..Len(fps) |-> [fps[i] EXCEPT !.phash = HashToHex(ph)]],
           [report_id |-> rid, phash |-> HashToHex(ph), embedding |-> <<>>])

\* ImageFingerprint(report_id, phash=str(ph), embedding=b''), added once
PersistFingerprint(fps, rid, ph) ==
    Append(fps, [report_id |-> rid, phash |-> HashToHex(ph), embedding |-> <<>>])

\* upload_create_report_and_detect: hash, pHash dedupe, save upload, create
\* the report (with radius attachment), persist the fingerprint
Upload(ph, pos) ==
    /\ Len(reports) < MaxReports
    /\ LET dup_ids == PhashDupIds(fingerprints, reports, ph, now)
       IN IF dup_ids # {}
          THEN /\ resp' = [Resp("upload", 409) EXCEPT !.reason = "phash", !.ids = dup_ids]
               /\ UNCHANGED <<reports, fingerprints>>
          ELSE \E rs \in CreateLitterReportRows(reports, groups, pos, now) :
                  /\ reports' = rs
                  /\ fingerprints' = PersistFingerprint(fingerprints, Len(rs), ph)
                  /\ resp' = [Resp("upload", 201) EXCEPT !.ids = {Len(rs)}]
    /\ UNCHANGED <<groups, events, detections, now, ticks, job, faiss, ort, reqs>>

\* the passage of time between requests
Tick(d) ==
    /\ ticks < MaxTicks
    /\ now' = now + d
    /\ ticks' = ticks + 1
    /\ UNCHANGED <<reports, fingerprints, groups, events, detections, resp, job, faiss, ort, reqs>>

\* submitted images: hashes at distances 8, 9 and 1 of each other
Hashes == {{}, 0..7, 0..8}

(* ------------------------- concurrent requests ----------------------- *)
\* requests served at the same time, each in its own database transaction
\* (read committed): pc is the request's position between its statements,
\* code its answer
MaxRequests == 2

ReqsInit ==
    [q \in 1..MaxRequests |->
        [pc |-> "idle", op |-> "", ph |-> {}, pos |-> <<>>, g |-> NULL, code |-> 0]]

\* upload_create_report_and_detect up to the dedupe test: the SELECT of the
\* fingerprints of the last week and the 409 when one is within the threshold
UploadCheck(q, ph, pos) ==
    /\ reqs[q].pc = "idle"
    /\ LET dup_ids == PhashDupIds(fingerprints, reports, ph, now)
       IN IF dup_ids # {}
          THEN /\ resp' = [Resp("upload", 409) EXCEPT !.reason = "phash", !.ids = dup_ids]
               /\ reqs' = [reqs EXCEPT ![q] = [@ EXCEPT !.pc = "done", !.op = "upload",
                                                        !.ph = ph, !.pos = pos,
                                                        !.code = 409]]
          ELSE /\ UNCHANGED resp
               /\ reqs' = [reqs EXCEPT ![q] = [@ EXCEPT !.pc = "checked", !.op = "upload",
                                                        !.ph = ph, !.pos = pos]]
    /\ UNCHANGED <<reports, fingerprints, groups, events, detections, now, ticks,
                   job, faiss, ort>>

\* the rest of the handler: the report is created and the fingerprint stored
UploadCommit(q) ==
    /\ reqs[q].pc = "checked"
    /\ \E rs \in CreateLitterReportRows(reports, groups, reqs[q].pos, now) :
          /\ reports' = rs
          /\ fingerprints' = PersistFingerprint(fingerprints, Len(rs), reqs[q].ph)
          /\ resp' = [Resp("upload", 201) EXCEPT !.ids = {Len(rs)}]
    /\ reqs' = [reqs EXCEPT ![q] = [@ EXCEPT !.pc = "done", !.code = 201]]
    /\ UNCHANGED <<groups, events, detections, now, ticks, job, faiss, ort>>

\* create_event with litter_group_id up to the lock test: the group is read;
\* 404 when there is none, 409 when it is locked
CreateEventRead(q, g) ==
    /\ reqs[q].pc = "idle"
    /\ IF g \notin GroupIds
       THEN /\ resp' = Resp("create_event", 404)
            /\ reqs' = [reqs EXCEPT ![q] = [@ EXCEPT !.pc = "done", !.op = "create_event",
                                                     !.g = g, !.code = 404]]
       ELSE IF groups[g].is_locked
       THEN /\ resp' = Resp("create_event", 409)
            /\ reqs' = [reqs EXCEPT ![q] = [@ EXCEPT !.pc = "done", !.op = "create_event",
                                                     !.g = g, !.code = 409]]
       ELSE /\ UNCHANGED resp
            /\ reqs' = [reqs EXCEPT ![q] = [@ EXCEPT !.pc = "read", !.op = "create_event",
                                                     !.g = g]]
    /\ UNCHANGED <<reports, fingerprints, groups, events, detections, now, ticks,
                   job, faiss, ort>>

\* the rest of create_event: the group is locked, the CleanupEvent inserted,
\* the group's reports tied to it, and the transaction committed
CreateEventCommit(q) ==
    /\ reqs[q].pc = "read"
    /\ LET g == reqs[q].g
           e == Len(events) + 1
       IN /\ groups' = [groups EXCEPT ![g].is_locked = TRUE]
          /\ events' = Append(events, [litter_group_id |-> g])
          /\ reports' = [r \in ReportIds |->
                            IF reports[r].group_id = g
                            THEN [reports[r] EXCEPT !.event_id = e]
                            ELSE reports[r]]
          /\ resp' = Resp("create_event", 200)
    /\ reqs' = [reqs EXCEPT ![q] = [@ EXCEPT !.pc = "done", !.code = 200]]
    /\ UNCHANGED <<fingerprints, detections, now, ticks, job, faiss, ort>>

(* --------------------------- object detector -------------------------- *)
MaxDetections == 2
MaxDetectReports == 1

\* fetch_image_bytes: up to max_attempts GETs; an attempt gives a status code
\* or TransportError (requests.RequestException)
TransportError == 0
MaxAttempts == 3
AttemptResults == {200, 304, 404, 503, TransportError}

RECURSIVE FetchLoop(_, _, _)
\* the response the retry loop ends with (TransportError: resp is None)
FetchLoop(results, attempt, last) ==
    IF attempt > MaxAttempts THEN last
    ELSE LET r == results[attempt]
         IN IF r = 200 THEN r
            ELSE IF r # TransportError /\ 400 <= r /\ r < 500 THEN r
            ELSE FetchLoop(results, attempt + 1, r)

\* "bytes" or the status of the HTTPException raised
FetchImageBytes(results) ==
    LET r == FetchLoop(results, 1, TransportError)
    IN IF r = TransportError THEN 500
       ELSE IF r # 200 THEN 502
       ELSE 200

\* _letterbox_resize for an image of w x h: scale = min(T/w, T/h) kept as the
\* fraction num/den, and the (left, top) padding
InputSize == 640

LetterboxResize(w, h) ==
    LET den == IF w > h THEN w ELSE h
        new_w == (w * InputSize) \div den
        new_h == (h * InputSize) \div den
    IN [num |-> InputSize, den |-> den, new_w |-> new_w, new_h |-> new_h,
        left |-> (InputSize - new_w) \div 2, top |-> (InputSize - new_h) \div 2]

\* where cv2.resize and copyMakeBorder put the point at v of an axis of `full`
\* pixels resized to `new` pixels and padded by `pad`: v * new / full + pad,
\* as the fraction n/d
LetterboxPoint(v, full, new, pad) == [n |-> v * new + pad * full, d |-> full]

Clip(v, lo, hi) == IF v < lo THEN lo ELSE IF v > hi THEN hi ELSE v

\* the inverse remap of one coordinate q = n/d without rounding:
\* (q - pad) / scale clipped to [0, lim], as a fraction
RemapCoord(q, pad, lb, lim) ==
    LET n == (q.n - pad * q.d) * lb.den
        d == q.d * lb.num
    IN IF n < 0 THEN [n |-> 0, d |-> 1]
       ELSE IF n > lim * d THEN [n |-> lim, d |-> 1]
       ELSE [n |-> n, d |-> d]

\* a box of the original image carried into the letterboxed image and back
\* through the inverse remap
LetterboxRoundTrip ==
    /\ resp.op = "letterbox input"
    /\ LET w0 == resp.args[1]
           h0 == resp.args[2]
           b == resp.args[3]
           lb == LetterboxResize(w0, h0)
           out == <<RemapCoord(LetterboxPoint(b[1], w0, lb.new_w, lb.left), lb.left, lb, w0),
                    RemapCoord(LetterboxPoint(b[2], h0, lb.new_h, lb.top), lb.top, lb, h0),
                    RemapCoord(LetterboxPoint(b[3], w0, lb.new_w, lb.left), lb.left, lb, w0),
                    RemapCoord(LetterboxPoint(b[4], h0, lb.new_h, lb.top), lb.top, lb, h0)>>
       IN resp' = [resp EXCEPT !.op = "letterbox", !.args = <<w0, h0, b, out>>]
    /\ UNCHANGED <<reports, fingerprints, groups, events, detections, now, ticks,
                   job, faiss, ort, reqs>>

\* undo the letterbox: subtract the padding, divide by the scale, clamp
RemapBox(b, lb, w0, h0) ==
    <<Clip(((b[1] - lb.left) * lb.den) \div lb.num, 0, w0),
      Clip(((b[2] - lb.top) * lb.den) \div lb.num, 0, h0),
      Clip(((b[3] - lb.left) * lb.den) \div lb.num, 0, w0),
      Clip(((b[4] - lb.top) * lb.den) \div lb.num, 0, h0)>>

BoxArea(b) == (b[3] - b[1]) * (b[4] - b[2])

Max2(a, b) == IF a > b THEN a ELSE b
Min2(a, b) == IF a < b THEN a ELSE b

Intersection(a, b) ==
    Max2(0, Min2(a[3], b[3]) - Max2(a[1], b[1])) * Max2(0, Min2(a[4], b[4]) - Max2(a[2], b[2]))

IOU_THRESH_PCT == 45
CONF_THRESH_PCT == 25

\* iou <= iou_thresh, with iou = inter / (area_i + area_j - inter + 1e-6)
IouWithin(a, b) ==
    Intersection(a, b) * 100 <= IOU_THRESH_PCT * (BoxArea(a) + BoxArea(b) - Intersection(a, b))

RECURSIVE ArgsortDesc(_, _)
\* scores.argsort()[::-1]: indices by descending score (equal scores: the
\* higher index first)
ArgsortDesc(scores, left) ==
    IF left = {} THEN <<>>
    ELSE LET i == CHOOSE j \in left : \A k \in left :
                     scores[j] > scores[k] \/ (scores[j] = scores[k] /\ j >= k)
         IN <<i>> \o ArgsortDesc(scores, left \ {i})

\* `order = order[inds]` for `order = order[inds + 1]`: the positions found in
\* order[1:] are taken in order itself, one place early
KeepWithinShifted(boxes, i, order) ==
    LET inds == SelectSeq([p \in 1..Len(order) |-> p],
                          LAMBDA p : IouWithin(boxes[i], boxes[order[p]]))
        full == <<i>> \o order
    IN [k \in 1..Len(inds) |-> full[inds[k]]]

\* order[inds + 1]: the rest of the order whose IoU with box i is within the
\* threshold
KeepWithin(boxes, i, order) ==
    SelectSeq(order, LAMBDA j : IouWithin(boxes[i], boxes[j]))


RECURSIVE NmsLoop(_, _)
NmsLoop(boxes, order) ==
    IF order = <<>> THEN <<>>
    ELSE <<Head(order)>> \o NmsLoop(boxes, KeepWithin(boxes, Head(order), Tail(order)))

\* _nms: the kept indices, best score first
Nms(boxes, scores) == NmsLoop(boxes, ArgsortDesc(scores, DOMAIN scores))

\* a call of _nms on the boxes and scores held in resp.args: the kept indices
\* are appended to them
NmsCall ==
    /\ resp.op = "_nms input"
    /\ resp' = [resp EXCEPT !.op = "_nms",
                            !.args = <<resp.args[1], resp.args[2],
                                       Nms(resp.args[1], resp.args[2])>>]
    /\ UNCHANGED <<reports, fingerprints, groups, events, detections, now, ticks,
                   job, faiss, ort, reqs>>

NumLabels == 4

ZeroResult == [raised |-> "", total |-> 0, severity |-> "none"]
Raised(msg) == [raised |-> msg, total |-> 0, severity |-> "none"]

\* run_detection_on_image_bytes on an image img = [decodable, w, h], with the
\* model file present or not, and the model's answer out
RunDetection(img, model_ok, out) ==
    IF ~img.decodable THEN Raised("BAD_DECODE")
    ELSE IF ~model_ok THEN Raised("Model not found")
    ELSE IF out.kind = "raise" THEN Raised("inference failed")
    ELSE IF out.kind = "empty" THEN ZeroResult
    ELSE IF out.kind = "badshape" THEN Raised("Unexpected ONNX output shape")
    ELSE LET rows == SelectSeq(out.rows, LAMBDA r : r.conf >= CONF_THRESH_PCT)
         IN IF rows = <<>> THEN ZeroResult
            ELSE LET lb == LetterboxResize(img.w, img.h)
                     boxes == [i \in DOMAIN rows |-> RemapBox(rows[i].box, lb, img.w, img.h)]
                     scores == [i \in DOMAIN rows |-> rows[i].conf]
                     keep == Nms(boxes, scores)
                     final_boxes == [i \in DOMAIN keep |-> boxes[keep[i]]]
                 IN IF \E i \in DOMAIN keep :
                          rows[keep[i]].cls >= NumLabels \/ rows[keep[i]].cls < 0 - NumLabels
                    THEN Raised("list index out of range")
                    ELSE [raised |-> "", total |-> Len(keep),
                          severity |-> DetermineSeverity(Len(keep), final_boxes,
                                                         <<img.w, img.h>>)]

\* a "no litter" branch that leaves the status as it was
MarkNoLitterKeepingStatus(rpt) ==
    [rpt EXCEPT !.is_detected = FALSE,
                !.results = [status |-> "no-litter", error |-> "No litter detected",
                             total |-> 0]]

\* the report row after the "no litter" branch
MarkNoLitter(rpt) ==
    [rpt EXCEPT !.status = "no-litter", !.is_detected = FALSE,
                !.results = [status |-> "no-litter", error |-> "No litter detected",
                             total |-> 0]]

\* an exception handler that drops the message
MarkErrorWithoutMessage(rpt, msg) ==
    [rpt EXCEPT !.status = "error",
                !.results = [status |-> "error", error |-> "", total |-> 0]]

\* the report row after the generic exception handler
MarkError(rpt, msg) ==
    [rpt EXCEPT !.status = "error",
                !.results = [status |-> "error", error |-> msg, total |-> 0]]

\* the report row after a successful run
MarkDetected(rpt, res) ==
    [rpt EXCEPT !.severity = res.severity, !.is_detected = TRUE,
                !.results = [status |-> "detected", error |-> "", total |-> res.total]]

\* create_litter_detection(db, report_id) in the environment env =
\* [upload_ok, fetch, img, model_ok, out]
CreateLitterDetectionCall(rid, env) ==
    /\ IF rid \notin ReportIds
       THEN /\ resp' = Resp("create_litter_detection", 404)
            /\ UNCHANGED <<reports, detections>>
       ELSE IF ~env.upload_ok
       THEN /\ resp' = Resp("create_litter_detection", 400)
            /\ UNCHANGED <<reports, detections>>
       ELSE IF FetchImageBytes(env.fetch) # 200
       THEN /\ resp' = Resp("create_litter_detection", FetchImageBytes(env.fetch))
            /\ UNCHANGED <<reports, detections>>
       ELSE LET res == RunDetection(env.img, env.model_ok, env.out)
            IN IF res.raised # ""
               THEN /\ reports' = [reports EXCEPT ![rid] = MarkError(@, res.raised)]
                    /\ resp' = [Resp("create_litter_detection", 500) EXCEPT !.ids = {rid}]
                    /\ UNCHANGED detections
               ELSE IF res.total = 0
               THEN /\ reports' = [reports EXCEPT ![rid] = MarkNoLitter(@)]
                    /\ resp' = [Resp("create_litter_detection", 400) EXCEPT
                                  !.reason = "No litter detected.", !.ids = {rid}]
                    /\ UNCHANGED detections
               ELSE /\ reports' = [reports EXCEPT ![rid] = MarkDetected(@, res)]
                    /\ detections' = Append(detections,
                          [litter_report_id |-> rid, total |-> res.total,
                           severity |-> res.severity])
                    /\ resp' = [Resp("create_litter_detection", 200) EXCEPT !.ids = {rid}]

\* POST /litter_detections: the call made by the detection controller
CreateLitterDetection(rid, env) ==
    /\ Len(detections) < MaxDetections
    /\ CreateLitterDetectionCall(rid, env)
    /\ UNCHANGED <<fingerprints, groups, events, now, ticks, job, faiss, ort, reqs>>

\* the detector's environments: images, model answers, fetch attempts
GoodImg == [decodable |-> TRUE, w |-> 640, h |-> 480]
BadImg == [decodable |-> FALSE, w |-> 0, h |-> 0]

Row(box, conf, cls) == [box |-> box, conf |-> conf, cls |-> cls]
Rows(rows) == [kind |-> "rows", rows |-> rows]
EmptyOut == [kind |-> "empty", rows |-> <<>>]

ModelOutputs ==
    {EmptyOut,
     [kind |-> "badshape", rows |-> <<>>],
     [kind |-> "raise", rows |-> <<>>],
     Rows(<<Row(<<10, 90, 50, 130>>, 10, 0)>>),
     Rows(<<Row(<<100, 180, 200, 280>>, 90, 1)>>),
     Rows(<<Row(<<100, 180, 200, 280>>, 90, 1), Row(<<105, 180, 205, 280>>, 80, 1),
            Row(<<10, 90, 50, 130>>, 20, 0)>>),
     Rows(<<Row(<<0, 80, 320, 400>>, 60, 2)>>),
     Rows(<<Row(<<100, 180, 200, 280>>, 90, 9)>>)}

OkFetch == <<200, 200, 200>>
\* fetches the detector's runs meet: immediate success, success on a retry,
\* a client error, server errors throughout, no response at all
FetchCases == {OkFetch, <<503, TransportError, 200>>, <<404, 200, 200>>,
               <<503, 503, 503>>, <<TransportError, TransportError, TransportError>>}

DetectEnvs ==
    {[upload_ok |-> FALSE, fetch |-> OkFetch, img |-> GoodImg, model_ok |-> TRUE,
      out |-> EmptyOut]}
    \cup {[upload_ok |-> TRUE, fetch |-> f, img |-> GoodImg, model_ok |-> TRUE,
           out |-> EmptyOut] : f \in FetchCases}
    \cup {[upload_ok |-> TRUE, fetch |-> OkFetch, img |-> BadImg, model_ok |-> TRUE,
           out |-> EmptyOut],
          [upload_ok |-> TRUE, fetch |-> OkFetch, img |-> GoodImg, model_ok |-> FALSE,
           out |-> EmptyOut]}
    \cup {[upload_ok |-> TRUE, fetch |-> OkFetch, img |-> GoodImg, model_ok |-> TRUE,
           out |-> o] : o \in ModelOutputs}


(* -------------------------- similarity index -------------------------- *)
\* utils/geoutils.py: the FAISS singleton _faiss_index (index: 0 is None, else
\* the position in objs of the index object), the index objects created so
\* far (objs: the ids each holds in memory), the index file on disk, and the
\* tasks submitted to _executor in submission order.
MaxTasks == 2
MaxWorkers == 2

FaissInit ==
    [index |-> 0, objs |-> <<>>, file |-> [state |-> "absent", ids |-> {}, writer |-> 0],
     tasks |-> <<>>]

TaskIds == 1..Len(faiss.tasks)

\* the tasks a thread of the pool is running
Running == {t \in TaskIds : faiss.tasks[t].pc \notin {"queued", "done", "failed"}}

\* the tasks inside the insert section: add_with_ids followed by write_index
InInsert == {t \in TaskIds : faiss.tasks[t].pc \in {"adding", "write", "flush"}}

NewTask(id) == [id |-> id, pc |-> "queued", idx |-> 0, snap |-> {}]

\* _executor.submit(worker): the task joins the queue
SubmitTask(f, id) == [f EXCEPT !.tasks = Append(@, NewTask(id))]

\* index_embedding_async(report_id, emb)
IndexEmbeddingAsync(id) ==
    /\ Len(faiss.tasks) < MaxTasks
    /\ faiss' = SubmitTask(faiss, id)
    /\ UNCHANGED <<reports, fingerprints, groups, events, detections, now, ticks, resp,
                   job, ort, reqs>>

\* a free thread of the pool takes the oldest queued task
TaskStart(t) ==
    /\ t \in TaskIds
    /\ faiss.tasks[t].pc = "queued"
    /\ \A u \in 1..(t - 1) : faiss.tasks[u].pc # "queued"
    /\ Cardinality(Running) < MaxWorkers
    /\ faiss' = [faiss EXCEPT !.tasks[t].pc = "load"]
    /\ UNCHANGED <<reports, fingerprints, groups, events, detections, now, ticks, resp,
                   job, ort, reqs>>

\* load_faiss_index: the test `_faiss_index is None`
TaskLoadCheck(t) ==
    /\ t \in TaskIds
    /\ faiss.tasks[t].pc = "load"
    /\ faiss' = [faiss EXCEPT !.tasks[t].pc = IF faiss.index = 0 THEN "read" ELSE "return"]
    /\ UNCHANGED <<reports, fingerprints, groups, events, detections, now, ticks, resp,
                   job, ort, reqs>>

\* load_faiss_index: read the file (or create an empty index) and assign the
\* singleton; a file that is being written or is damaged makes read_index raise
TaskLoadRead(t) ==
    /\ t \in TaskIds
    /\ faiss.tasks[t].pc = "read"
    /\ IF faiss.file.state \in {"partial", "corrupt"}
       THEN faiss' = [faiss EXCEPT !.tasks[t].pc = "failed"]
       ELSE faiss' = [faiss EXCEPT !.objs = Append(@, faiss.file.ids),
                                   !.index = Len(faiss.objs) + 1,
                                   !.tasks[t].pc = "return"]
    /\ UNCHANGED <<reports, fingerprints, groups, events, detections, now, ticks, resp,
                   job, ort, reqs>>

\* load_faiss_index: `return _faiss_index`, the singleton as it is now
TaskLoadReturn(t) ==
    /\ t \in TaskIds
    /\ faiss.tasks[t].pc = "return"
    /\ faiss' = [faiss EXCEPT !.tasks[t].idx = faiss.index, !.tasks[t].pc = "add"]
    /\ UNCHANGED <<reports, fingerprints, groups, events, detections, now, ticks, resp,
                   job, ort, reqs>>

\* idx.add_with_ids: not atomic; it reads the index's content ...
TaskAddRead(t) ==
    /\ t \in TaskIds
    /\ faiss.tasks[t].pc = "add"
    /\ faiss' = [faiss EXCEPT !.tasks[t].snap = faiss.objs[faiss.tasks[t].idx],
                              !.tasks[t].pc = "adding"]
    /\ UNCHANGED <<reports, fingerprints, groups, events, detections, now, ticks, resp,
                   job, ort, reqs>>

\* ... and stores it back with the new id
TaskAddWrite(t) ==
    /\ t \in TaskIds
    /\ faiss.tasks[t].pc = "adding"
    /\ faiss' = [faiss EXCEPT !.objs[faiss.tasks[t].idx] =
                                  faiss.tasks[t].snap \cup {faiss.tasks[t].id},
                              !.tasks[t].pc = "write"]
    /\ UNCHANGED <<reports, fingerprints, groups, events, detections, now, ticks, resp,
                   job, ort, reqs>>

\* faiss.write_index: open the file for writing (truncating it) ...
TaskWriteOpen(t) ==
    /\ t \in TaskIds
    /\ faiss.tasks[t].pc = "write"
    /\ faiss' = [faiss EXCEPT !.file = [state |-> "partial", ids |-> {}, writer |-> t],
                              !.tasks[t].snap = faiss.objs[faiss.tasks[t].idx],
                              !.tasks[t].pc = "flush"]
    /\ UNCHANGED <<reports, fingerprints, groups, events, detections, now, ticks, resp,
                   job, ort, reqs>>

\* ... and write the index out.  When another writer opened the file in the
\* meantime the two outputs are mixed: the file holds this task's index or is
\* damaged.
TaskWriteClose(t) ==
    /\ t \in TaskIds
    /\ faiss.tasks[t].pc = "flush"
    /\ \E st \in (IF faiss.file.writer = t THEN {"ok"} ELSE {"ok", "corrupt"}) :
          faiss' = [faiss EXCEPT
                      !.file = [state |-> st,
                                ids |-> IF st = "ok" THEN faiss.tasks[t].snap ELSE {},
                                writer |-> faiss.file.writer],
                      !.tasks[t].pc = "done"]
    /\ UNCHANGED <<reports, fingerprints, groups, events, detections, now, ticks, resp,
                   job, ort, reqs>>

\* a failure that ends the job that submitted the insert
TaskFailSurfacing(t) ==
    /\ t \in TaskIds
    /\ faiss.tasks[t].pc \in {"load", "add", "write"}
    /\ faiss' = [faiss EXCEPT !.tasks[t].pc = "failed"]
    /\ job' = [job EXCEPT !.pc = "done"]
    /\ UNCHANGED <<reports, fingerprints, groups, events, detections, now, ticks, resp, ort, reqs>>

\* an exception in loading the index, in add_with_ids or in write_index: it
\* stays in the task's Future, which nobody reads
TaskFail(t) ==
    /\ t \in TaskIds
    /\ faiss.tasks[t].pc \in {"load", "add", "write"}
    /\ faiss' = [faiss EXCEPT !.tasks[t].pc = "failed"]
    /\ UNCHANGED <<reports, fingerprints, groups, events, detections, now, ticks, resp,
                   job, ort, reqs>>

\* a step of some task of the pool
TaskStep(t) ==
    \/ TaskStart(t)
    \/ TaskLoadCheck(t)
    \/ TaskLoadRead(t)
    \/ TaskLoadReturn(t)
    \/ TaskAddRead(t)
    \/ TaskAddWrite(t)
    \/ TaskWriteOpen(t)
    \/ TaskWriteClose(t)
    \/ TaskFail(t)

(* ------------------------- background job ----------------------------- *)
\* api/tasks/report_worker.py: the RQ worker runs one process_report job at a
\* time.  pc is the job's position, gets the outcomes of the GET attempts of
\* its download loop so far, code and reason the outcome of
\* create_litter_detection, runs the number of jobs started.
MaxJobs == 1

NoJob == [pc |-> "idle", rid |-> NULL, gets |-> <<>>, code |-> 0, reason |-> "",
          runs |-> 0]

\* update_litter_report_with_detection: severity, is_detected and
\* detection_results are written; the status column is not
UpdateLitterReportWithDetection(rpt, status, message, severity_level, total) ==
    [rpt EXCEPT !.severity = severity_level, !.is_detected = TRUE,
                !.results = [status |-> status, error |-> message, total |-> total]]

\* the job is taken from the queue
StartProcessReport(rid) ==
    /\ job.pc \in {"idle", "done"}
    /\ job.runs < MaxJobs
    /\ rid \in ReportIds
    /\ job' = [NoJob EXCEPT !.pc = "download", !.rid = rid, !.runs = job.runs + 1]
    /\ UNCHANGED <<reports, fingerprints, groups, events, detections, now, ticks, resp,
                   faiss, ort, reqs>>

\* one turn of the download loop, the GET giving r; after the last turn the
\* response is validated
DownloadAttempt(r) ==
    /\ job.pc = "download"
    /\ LET gets == Append(job.gets, r)
           last == r = 200 \/ (r # TransportError /\ 400 <= r /\ r < 500)
                      \/ Len(gets) = MaxAttempts
       IN IF ~last
          THEN /\ job' = [job EXCEPT !.gets = gets]
               /\ UNCHANGED reports
          ELSE IF r = TransportError
          THEN /\ job' = [job EXCEPT !.gets = gets, !.pc = "done"]
               /\ reports' = [reports EXCEPT ![job.rid] =
                     UpdateLitterReportWithDetection(@, "error",
                        "Failed to download image: no response", "null", 0)]
          ELSE IF r # 200
          THEN /\ job' = [job EXCEPT !.gets = gets, !.pc = "done"]
               /\ reports' = [reports EXCEPT ![job.rid] =
                     UpdateLitterReportWithDetection(@, "error",
                        "Failed to download image", "null", 0)]
          ELSE /\ job' = [job EXCEPT !.gets = gets, !.pc = "embed"]
               /\ UNCHANGED reports
    /\ UNCHANGED <<fingerprints, groups, events, detections, now, ticks, resp, faiss, ort, reqs>>

\* preprocess_image and predict_on_batch
Embed(ok) ==
    /\ job.pc = "embed"
    /\ IF ok
       THEN /\ job' = [job EXCEPT !.pc = "index"]
            /\ UNCHANGED reports
       ELSE /\ job' = [job EXCEPT !.pc = "done"]
            /\ reports' = [reports EXCEPT ![job.rid] =
                  UpdateLitterReportWithDetection(@, "error", "embedding failed", "null", 0)]
    /\ UNCHANGED <<fingerprints, groups, events, detections, now, ticks, resp, faiss, ort, reqs>>

\* index_embedding_async: the insert is handed to the pool and the job goes on
SubmitIndex ==
    /\ job.pc = "index"
    /\ faiss' = SubmitTask(faiss, job.rid)
    /\ job' = [job EXCEPT !.pc = "detect"]
    /\ UNCHANGED <<reports, fingerprints, groups, events, detections, now, ticks, resp, ort, reqs>>

\* create_litter_detection(db, report_id), in the environment env
Detect(env) ==
    /\ job.pc = "detect"
    /\ CreateLitterDetectionCall(job.rid, env)
    /\ job' = [job EXCEPT !.pc = "record", !.code = resp'.code, !.reason = resp'.reason]
    /\ UNCHANGED <<fingerprints, groups, events, now, ticks, faiss, ort, reqs>>

\* after create_litter_detection: an HTTPException is recorded as an error;
\* otherwise the report's detections with a positive count are queried and
\* the report is recorded as completed (no-litter when there is none)
RecordOutcome ==
    /\ job.pc = "record"
    /\ LET found == {d \in 1..Len(detections) :
                       /\ detections[d].litter_report_id = job.rid
                       /\ detections[d].total > 0}
       IN IF job.code # 200
          THEN reports' = [reports EXCEPT ![job.rid] =
                  UpdateLitterReportWithDetection(@, "error", "HTTPException", "null", 0)]
          ELSE IF found = {}
          THEN reports' = [reports EXCEPT ![job.rid] =
                  UpdateLitterReportWithDetection(@, "no-litter", "No litter detected",
                                                  "null", 0)]
          ELSE \E d \in found :
                  reports' = [reports EXCEPT ![job.rid] =
                     UpdateLitterReportWithDetection(@, "completed", "",
                        detections[d].severity, detections[d].total)]
    /\ job' = [job EXCEPT !.pc = "done"]
    /\ UNCHANGED <<fingerprints, groups, events, detections, now, ticks, resp, faiss, ort, reqs>>

(* --------------------------- image requests -------------------------- *)
\* a URL is [scheme, host, path], the path a sequence of segments; a stored
\* path has scheme "" and host "".  settings.UPLOAD_URL is https://UploadHost
UploadHost == "uploads.example"

\* file_url: an http(s) URL as it is, a path joined to settings.UPLOAD_URL
FileUrl(u) ==
    IF u.scheme \in {"http", "https"} THEN u
    ELSE [scheme |-> "https", host |-> UploadHost, path |-> u.path]

\* fetch_image_bytes: the Authorization header is added when the token is
\* configured and the path holds "/uploads/" or the host is the upload host
FetchSendsToken(u, token) ==
    /\ token
    /\ \/ \E i \in 1..(Len(FileUrl(u).path) - 1) : FileUrl(u).path[i] = "uploads"
       \/ FileUrl(u).host = UploadHost

\* the GET of fetch_image_bytes for the URL and token setting in resp.args
FetchRequest ==
    /\ resp.op = "image url"
    /\ resp' = [resp EXCEPT !.op = "fetch_image_bytes GET",
                            !.args = <<FileUrl(resp.args[1]), resp.args[2],
                                       FetchSendsToken(resp.args[1], resp.args[2])>>]
    /\ UNCHANGED <<reports, fingerprints, groups, events, detections, now, ticks,
                   job, faiss, ort, reqs>>

\* the GET of process_report for the URL and token setting in resp.args: the
\* header is added whenever the token is configured
WorkerRequest ==
    /\ resp.op = "image url"
    /\ resp' = [resp EXCEPT !.op = "process_report GET",
                            !.args = <<FileUrl(resp.args[1]), resp.args[2], resp.args[2]>>]
    /\ UNCHANGED <<reports, fingerprints, groups, events, detections, now, ticks,
                   job, faiss, ort, reqs>>

(* -------------------------- inference session ------------------------- *)
\* get_ort_session: the global _ORT_SESSION (session: 0 is None, else the
\* number of the session object), the holder of _SESSION_LOCK (0: free), the
\* number of sessions constructed, and the calling threads: pc is the
\* caller's position, got the session returned to it, path how it got it.
MaxCallers == 2

OrtInit ==
    [session |-> 0, lock |-> 0, built |-> 0,
     callers |-> [c \in 1..MaxCallers |-> [pc |-> "idle", got |-> 0, path |-> ""]]]

\* a thread calls get_ort_session()
OrtCall(c) ==
    /\ ort.callers[c].pc \in {"idle", "done"}
    /\ ort' = [ort EXCEPT !.callers[c] = [pc |-> "outer", got |-> 0, path |-> ""]]
    /\ UNCHANGED <<reports, fingerprints, groups, events, detections, now, ticks, resp,
                   job, faiss, reqs>>

\* the first test `_ORT_SESSION is None`, outside the lock
OrtCheckOuter(c) ==
    /\ ort.callers[c].pc = "outer"
    /\ ort' = IF ort.session = 0
              THEN [ort EXCEPT !.callers[c].pc = "acquire"]
              ELSE [ort EXCEPT !.callers[c].pc = "return", !.callers[c].path = "fast"]
    /\ UNCHANGED <<reports, fingerprints, groups, events, detections, now, ticks, resp,
                   job, faiss, reqs>>

\* `with _SESSION_LOCK:` the lock is acquired when it is free
OrtAcquire(c) ==
    /\ ort.callers[c].pc = "acquire"
    /\ ort.lock = 0
    /\ ort' = [ort EXCEPT !.lock = c, !.callers[c].pc = "inner"]
    /\ UNCHANGED <<reports, fingerprints, groups, events, detections, now, ticks, resp,
                   job, faiss, reqs>>

\* a second test that is skipped: the holder of the lock always builds
OrtCheckInnerSkipped(c) ==
    /\ ort.callers[c].pc = "inner"
    /\ ort' = [ort EXCEPT !.callers[c].pc = "build"]
    /\ UNCHANGED <<reports, fingerprints, groups, events, detections, now, ticks, resp,
                   job, faiss, reqs>>

\* the second test `_ORT_SESSION is None`, under the lock; when the session
\* is there the with-block is left and the lock released
OrtCheckInner(c) ==
    /\ ort.callers[c].pc = "inner"
    /\ ort' = IF ort.session = 0
              THEN [ort EXCEPT !.callers[c].pc = "build"]
              ELSE [ort EXCEPT !.lock = 0, !.callers[c].pc = "return",
                               !.callers[c].path = "found"]
    /\ UNCHANGED <<reports, fingerprints, groups, events, detections, now, ticks, resp,
                   job, faiss, reqs>>

\* the model file exists: _ORT_SESSION = _load_onnx_session(MODEL_PATH)
OrtBuild(c) ==
    /\ ort.callers[c].pc = "build"
    /\ ort' = [ort EXCEPT !.session = ort.built + 1,
                          !.built = ort.built + 1,
                          !.callers[c].pc = "release",
                          !.callers[c].path = "built"]
    /\ UNCHANGED <<reports, fingerprints, groups, events, detections, now, ticks, resp,
                   job, faiss, reqs>>

\* the with-block is left
OrtRelease(c) ==
    /\ ort.callers[c].pc = "release"
    /\ ort' = [ort EXCEPT !.lock = 0, !.callers[c].pc = "return"]
    /\ UNCHANGED <<reports, fingerprints, groups, events, detections, now, ticks, resp,
                   job, faiss, reqs>>

\* `return _ORT_SESSION`
OrtReturn(c) ==
    /\ ort.callers[c].pc = "return"
    /\ ort' = [ort EXCEPT !.callers[c].pc = "done", !.callers[c].got = ort.session]
    /\ UNCHANGED <<reports, fingerprints, groups, events, detections, now, ticks, resp,
                   job, faiss, reqs>>

\* a step of a thread inside get_ort_session
OrtStep(c) ==
    \/ OrtCall(c)
    \/ OrtCheckOuter(c)
    \/ OrtAcquire(c)
    \/ OrtCheckInner(c)
    \/ OrtBuild(c)
    \/ OrtRelease(c)
    \/ OrtReturn(c)

(* --------------------------- specifications --------------------------- *)
Init ==
    /\ reports = <<>>
    /\ fingerprints = <<>>
    /\ groups = <<>>
    /\ events = <<>>
    /\ detections = <<>>
    /\ now = 0
    /\ ticks = 0
    /\ resp = NoResp
    /\ job = NoJob
    /\ faiss = FaissInit
    /\ ort = OrtInit
    /\ reqs = ReqsInit

\* the claimed point of the (n+1)-th report of the grouping runs: the corners
\* of a triangle in turn, so that three reports form one cluster with a
\* polygon hull
SubmissionPoint(n) ==
    IF n % 3 = 0 THEN <<0, -3>>
    ELSE IF n % 3 = 1 THEN <<3, 0>>
    ELSE <<0, 0>>

\* the centre given to the (n+1)-th group an operator creates
GroupPoint(n) == IF n % 2 = 0 THEN <<0, 44>> ELSE <<70, 0>>

\* the centre update_group moves a group to
MovedPoint == <<70, 0>>

\* the grouping pipeline: report creation with radius attachment, group CRUD,
\* cluster suggestion and materialization, cleanup events
NextGroup ==
    \/ CreateLitterReport(SubmissionPoint(Len(reports)))
    \/ \E u \in Users, name \in GroupNames : CreateGroup(u, name, GroupPoint(Len(groups)))
    \/ \E u \in Users, g \in 1..MaxGroups : UpdateGroup(u, g, Unset, MovedPoint)
    \/ ListSuggestions
    \/ ReconcileClusters
    \/ \E cluster_id \in 0..1 : CreateFromSuggestion(cluster_id)
    \/ \E u \in Users, ids \in SUBSET (1..MaxReports) : CreateEventFromReports(u, ids)
    \/ \E u \in Users, g \in 1..MaxGroups : CreateEventFromGroup(u, g)

SpecGroup == Init /\ [][NextGroup]_vars

\* claimed points of the uploads: two points 17 m apart
UploadPoints == {<<0, 0>>, <<3, 0>>}

\* the dedupe gate: submissions spread over time
NextUpload ==
    \/ \E ph \in Hashes, pos \in UploadPoints : Upload(ph, pos)
    \/ \E d \in {10, WeekMin} : Tick(d)

SpecUpload == Init /\ [][NextUpload]_vars

\* detection runs on accepted submissions: an empty model answer and one box
AcceptedEnvs ==
    {[upload_ok |-> TRUE, fetch |-> OkFetch, img |-> GoodImg, model_ok |-> TRUE, out |-> o] :
        o \in {EmptyOut, Rows(<<Row(<<100, 180, 200, 280>>, 90, 1)>>)}}

\* accepted submissions, made at one point, and what happens to their
\* reports afterwards
NextAccepted ==
    \/ \E ph \in Hashes : Upload(ph, <<0, 0>>)
    \/ Tick(WeekMin)
    \/ \E rid \in 1..MaxDetectReports, env \in AcceptedEnvs : CreateLitterDetection(rid, env)

SpecAccepted == Init /\ [][NextAccepted]_vars

\* the detector: detection runs, in every environment, on reports created at
\* one point
NextDetect ==
    \/ Len(reports) < MaxDetectReports /\ CreateLitterReport(<<0, 0>>)
    \/ \E rid \in 1..MaxDetectReports, env \in DetectEnvs : CreateLitterDetection(rid, env)

SpecDetect == Init /\ [][NextDetect]_vars

\* the similarity index: inserts submitted to the pool, run by its threads
NextIndex ==
    \/ IndexEmbeddingAsync(Len(faiss.tasks) + 1)
    \/ \E t \in 1..MaxTasks : TaskStep(t)

SpecIndex == Init /\ [][NextIndex]_vars

\* the image hash of the (n+1)-th submission handed to the job: hashes at
\* distance 9 of each other in turn
JobHash(n) == IF n % 2 = 0 THEN {} ELSE 0..8

\* the environments create_litter_detection meets inside the job: no upload
\* row, an undecodable image, an empty model answer, one box
JobEnvs ==
    AcceptedEnvs
    \cup {[upload_ok |-> FALSE, fetch |-> OkFetch, img |-> GoodImg, model_ok |-> TRUE,
           out |-> EmptyOut],
          [upload_ok |-> TRUE, fetch |-> OkFetch, img |-> BadImg, model_ok |-> TRUE,
           out |-> EmptyOut]}

\* the background job: process_report on reports accepted at one point, with
\* the pool's threads running the inserts it submits
NextWorker ==
    \/ Len(reports) < MaxDetectReports /\ Upload(JobHash(Len(reports)), <<0, 0>>)
    \/ \E rid \in 1..MaxDetectReports : StartProcessReport(rid)
    \/ \E r \in AttemptResults : DownloadAttempt(r)
    \/ \E ok \in BOOLEAN : Embed(ok)
    \/ SubmitIndex
    \/ \E env \in JobEnvs : Detect(env)
    \/ RecordOutcome
    \/ \E t \in 1..MaxTasks : TaskStep(t)

SpecWorker == Init /\ [][NextWorker]_vars

\* the most boxes handed to determine_severity
MaxBoxes == 2

\* determine_severity on the counts around its thresholds, an image of
\* 10 x 10 or 20 x 10 and up to MaxBoxes boxes [x1, y1, x2, y2] inside it: two
\* of 6 px that share a 1 x 2 strip (IoU 0.2, kept by the suppression), a
\* disjoint one, a large one and one with x2 < x1
NextSeverity ==
    \E total_count \in {0, 1, 4, 5, 14, 15}, n \in 0..MaxBoxes :
       \E bounding_boxes \in [1..n -> {<<0, 0, 3, 2>>, <<2, 0, 5, 2>>, <<5, 5, 8, 7>>,
                                     <<0, 0, 4, 3>>, <<3, 3, 1, 4>>}] :
          \E image_size \in {<<10, 10>>, <<20, 10>>} :
             DetermineSeverityCall(total_count, bounding_boxes, image_size)

SpecSeverity == Init /\ [][NextSeverity]_vars

\* the most boxes handed to _nms
MaxNmsBoxes == 3

\* _nms on up to MaxNmsBoxes boxes with scores of 30, 60 or 90 percent: three
\* boxes in a chain (each overlaps the next with IoU 0.6, the first and third
\* with IoU 0.33), one apart and one of no area
InitNms ==
    /\ reports = <<>>
    /\ fingerprints = <<>>
    /\ groups = <<>>
    /\ events = <<>>
    /\ detections = <<>>
    /\ now = 0
    /\ ticks = 0
    /\ job = NoJob
    /\ faiss = FaissInit
    /\ ort = OrtInit
    /\ reqs = ReqsInit
    /\ \E n \in 0..MaxNmsBoxes :
          resp \in {[Resp("_nms input", 0) EXCEPT !.args = <<bx, sc>>] :
                       bx \in [1..n -> {<<0, 0, 4, 2>>, <<1, 0, 5, 2>>, <<2, 0, 6, 2>>,
                                        <<10, 10, 12, 12>>, <<3, 3, 3, 5>>}],
                       sc \in [1..n -> {30, 60, 90}]}

SpecNms == InitNms /\ [][NmsCall]_vars

\* the round trip on images smaller and larger than the model's input, with
\* boxes whose corners are at 0, the middle and the far edge of each axis
InitLetterbox ==
    /\ reports = <<>>
    /\ fingerprints = <<>>
    /\ groups = <<>>
    /\ events = <<>>
    /\ detections = <<>>
    /\ now = 0
    /\ ticks = 0
    /\ job = NoJob
    /\ faiss = FaissInit
    /\ ort = OrtInit
    /\ reqs = ReqsInit
    /\ \E w0, h0 \in {320, 480, 640, 961, 1202, 1280, 1600} :
          resp \in {[Resp("letterbox input", 0) EXCEPT !.args = <<w0, h0, <<x1, y1, x2, y2>>>>] :
                       x1 \in {0, w0 \div 2}, y1 \in {0, h0 \div 2},
                       x2 \in {w0 \div 2 + 1, w0}, y2 \in {h0 \div 2 + 1, h0}}

SpecLetterbox == InitLetterbox /\ [][LetterboxRoundTrip]_vars

\* repeated detection on a report: create_litter_detection called directly
\* and through the background job
NextRetry ==
    \/ Len(reports) < MaxDetectReports /\ Upload(JobHash(Len(reports)), <<0, 0>>)
    \/ \E rid \in 1..MaxDetectReports, env \in JobEnvs : CreateLitterDetection(rid, env)
    \/ \E rid \in 1..MaxDetectReports : StartProcessReport(rid)
    \/ \E r \in AttemptResults : DownloadAttempt(r)
    \/ \E ok \in BOOLEAN : Embed(ok)
    \/ SubmitIndex
    \/ \E env \in JobEnvs : Detect(env)
    \/ RecordOutcome

SpecRetry == Init /\ [][NextRetry]_vars

\* image requests for stored paths and for absolute URLs on the upload host
\* and on two other hosts, with the access token configured or not
ImageUrls ==
    LET paths == {<<"uploads", "a.jpg">>, <<"img", "a.jpg">>,
                  <<"files", "uploads", "a.jpg">>}
    IN {[scheme |-> "", host |-> "", path |-> p] : p \in paths}
       \cup {[scheme |-> sc, host |-> h, path |-> p] :
                sc \in {"http", "https"},
                h \in {UploadHost, "cdn.example", "other.example"},
                p \in paths}

InitRequest ==
    /\ reports = <<>>
    /\ fingerprints = <<>>
    /\ groups = <<>>
    /\ events = <<>>
    /\ detections = <<>>
    /\ now = 0
    /\ ticks = 0
    /\ job = NoJob
    /\ faiss = FaissInit
    /\ ort = OrtInit
    /\ reqs = ReqsInit
    /\ resp \in {[Resp("image url", 0) EXCEPT !.args = <<u, token>>] :
                    u \in ImageUrls, token \in BOOLEAN}

NextRequest == FetchRequest \/ WorkerRequest

SpecRequest == InitRequest /\ [][NextRequest]_vars

\* requests in flight together: uploads at one point, and create_event calls
\* on the groups an operator created
NextRace ==
    \/ \E u \in Users, name \in GroupNames : CreateGroup(u, name, GroupPoint(Len(groups)))
    \/ \E q \in 1..MaxRequests, ph \in Hashes : UploadCheck(q, ph, <<0, 0>>)
    \/ \E q \in 1..MaxRequests : UploadCommit(q)
    \/ \E q \in 1..MaxRequests, g \in 1..MaxGroups : CreateEventRead(q, g)
    \/ \E q \in 1..MaxRequests : CreateEventCommit(q)

SpecRace == Init /\ [][NextRace]_vars

\* the grouping pipeline with group deletion
NextMembership ==
    \/ CreateLitterReport(SubmissionPoint(Len(reports)))
    \/ \E u \in Users, name \in GroupNames : CreateGroup(u, name, GroupPoint(Len(groups)))
    \/ ReconcileClusters
    \/ \E u \in Users, ids \in SUBSET (1..MaxReports) : CreateEventFromReports(u, ids)
    \/ \E u \in Users, g \in 1..MaxGroups : CreateEventFromGroup(u, g)
    \/ \E u \in Users, g \in 1..MaxGroups : DeleteGroup(u, g)

SpecMembership == Init /\ [][NextMembership]_vars

\* the inference session: threads calling get_ort_session at any time
NextOrt == \E c \in 1..MaxCallers : OrtStep(c)

SpecOrt == Init /\ [][NextOrt]_vars

C2_SpatioTemporalRejected ==
    [][\A ph \in Hashes, pos \in UploadPoints :
          LET near == FindSpatioTemporal(reports, pos, now, SPATIAL_RADIUS_M,
                                         TEMPORAL_WINDOW_MIN)
              twins == {i \in 1..Len(fingerprints) :
                          Hamming(ph, HexToHash(fingerprints[i].phash)) <= 8}
          IN (Upload(ph, pos) /\ near # {} /\ twins = {})
                => /\ resp'.code = 409
                   /\ resp'.reason = "spatio-temporal"
                   /\ resp'.ids = near
                   /\ reports' = reports]_vars

\* C3: radius attachment never assigns a new report to a group whose
\* is_locked is true.
C3_NoAttachToLocked ==
    [][\A pos \in ReportPoints :
          CreateLitterReport(pos)
             => LET g == reports'[Len(reports')].group_id
                IN g # NULL => ~groups[g].is_locked]_vars

\* C4: no report that already has a group assignment is a member of a
\* suggestion get_cluster_suggestions returns.
C4_SuggestionsOnlyUngrouped ==
    resp.op = "get_cluster_suggestions"
       => \A r \in resp.ids : reports[r].group_id = NULL /\ ~reports[r].is_grouped

\* C5: once a group is locked, the set of reports whose group_id is that
\* group is changed by no step of the pipeline (radius attachment,
\* reconcile_clusters, create_event).
C5_LockedMembershipFrozen ==
    [][\A g \in GroupIds :
          groups[g].is_locked => Members(reports', g) = Members(reports, g)]_vars

\* C6: no step of the pipeline changes a group's is_locked from true to
\* false: a locked group is still there and still locked after every step.
C6_LockIsOneWay ==
    [][\A g \in GroupIds :
          groups[g].is_locked => g \in 1..Len(groups') /\ groups'[g].is_locked]_vars

\* C6 witness: update_group has just succeeded, and the first group, locked,
\* stands at the centre only update_group gives it.
C6_Witness ==
    /\ resp.op = "update_group"
    /\ resp.code = 200
    /\ Len(groups) >= 1
    /\ groups[1].is_locked
    /\ groups[1].created_by \in Users
    /\ groups[1].geom = MovedPoint

\* C7: create_litter_report attaches the new report to a group only if the
\* group's centre is within 500 m ground distance of the report's point, and
\* leaves group_id null and is_grouped false when no centre is within 500 m.
C7_AttachWithinGroundRadius ==
    [][\A pos \in ReportPoints :
          CreateLitterReport(pos)
             => LET new == reports'[Len(reports')]
                    within == {h \in GroupIds :
                                 /\ groups[h].geom # NoGeom
                                 /\ GroundDistSq(groups[h].geom, pos) <= 5000 * 5000}
                IN /\ new.group_id # NULL => new.group_id \in within
                   /\ within = {} => new.group_id = NULL /\ ~new.is_grouped]_vars

\* C8: when two unlocked groups lie at ground distances d1 < d2 <= 500 m of a
\* new report, the report is not attached to the farther one.
C8_NearerGroupWins ==
    [][\A pos \in ReportPoints :
          CreateLitterReport(pos)
             => \A g1 \in GroupIds, g2 \in GroupIds :
                   ( /\ ~groups[g1].is_locked /\ ~groups[g2].is_locked
                     /\ groups[g1].geom # NoGeom /\ groups[g2].geom # NoGeom
                     /\ GroundDistSq(groups[g1].geom, pos) < GroundDistSq(groups[g2].geom, pos)
                     /\ GroundDistSq(groups[g2].geom, pos) <= 5000 * 5000 )
                   => reports'[Len(reports')].group_id # g2]_vars

\* C9: a run of create_litter_detection that yields zero detections after
\* confidence filtering (an empty model output included) leaves the report
\* with status "no-litter" and is_detected false, persists no detection row
\* and answers 400.
C9_NoLitterIsClientRejection ==
    [][\A rid \in 1..MaxDetectReports, env \in DetectEnvs :
          ( /\ CreateLitterDetection(rid, env)
            /\ rid \in ReportIds
            /\ env.upload_ok
            /\ FetchLoop(env.fetch, 1, TransportError) = 200
            /\ env.img.decodable
            /\ env.model_ok
            /\ \/ env.out.kind = "empty"
               \/ /\ env.out.kind = "rows"
                  /\ \A i \in DOMAIN env.out.rows : env.out.rows[i].conf < 25 )
          => /\ reports'[rid].status = "no-litter"
             /\ ~reports'[rid].is_detected
             /\ detections' = detections
             /\ resp'.code = 400]_vars

\* C9 witness: a report that an earlier run had marked detected has just been
\* answered "No litter detected." and stands at no-litter.
C9_Witness ==
    /\ resp.op = "create_litter_detection"
    /\ resp.code = 400
    /\ resp.reason = "No litter detected."
    /\ resp.ids = {1}
    /\ Len(detections) = 1
    /\ reports[1].status = "no-litter"
    /\ ~reports[1].is_detected

\* C10: a run of create_litter_detection that fails unexpectedly (undecodable
\* image, missing model file, inference exception, unexpected output shape)
\* leaves the report with status "error" and the failure message stored on
\* it, persists no detection row and raises an error (500) to the caller.
C10_FailureMarksError ==
    [][\A rid \in 1..MaxDetectReports, env \in DetectEnvs :
          ( /\ CreateLitterDetection(rid, env)
            /\ rid \in ReportIds
            /\ env.upload_ok
            /\ FetchLoop(env.fetch, 1, TransportError) = 200
            /\ \/ ~env.img.decodable
               \/ ~env.model_ok
               \/ env.out.kind \in {"raise", "badshape"} )
          => /\ reports'[rid].status = "error"
             /\ reports'[rid].results.error # ""
             /\ reports'[rid].results.error =
                   (IF ~env.img.decodable THEN "BAD_DECODE"
                    ELSE IF ~env.model_ok THEN "Model not found"
                    ELSE IF env.out.kind = "raise" THEN "inference failed"
                    ELSE "Unexpected ONNX output shape")
             /\ detections' = detections
             /\ resp'.code = 500]_vars

\* C10 witness: a run on an undecodable image has just failed: the report is
\* at error with the decoder's message, and the caller got a 500.
C10_Witness ==
    /\ resp.op = "create_litter_detection"
    /\ resp.code = 500
    /\ resp.ids = {1}
    /\ reports[1].status = "error"
    /\ reports[1].results.error = "BAD_DECODE"
    /\ detections = <<>>

\* C11: every call of create_litter_detection on an existing report that ends
\* by raising (missing upload and image-fetch failure included) leaves the
\* report with a status other than "pending".
C11_NoPendingAfterFailure ==
    [][\A rid \in 1..MaxDetectReports, env \in DetectEnvs :
          ( /\ CreateLitterDetection(rid, env)
            /\ rid \in ReportIds
            /\ resp'.code # 200 )
          => reports'[rid].status # "pending"]_vars

\* C12: when a run of process_report has finished, the report's status is a
\* terminal one (completed, no-litter or error), never "pending", on the
\* success path and on every failure path.
C12_JobEndsInTerminalStatus ==
    job.pc = "done" => reports[job.rid].status \in {"completed", "no-litter", "error"}

\* C13: when process_report handles a report whose detection yields zero
\* objects, the report ends with status "no-litter", is_detected false, no
\* detection row, and a detection_results payload whose status is no-litter.
C13_JobRecordsNoLitter ==
    [][( /\ job.pc = "record"
         /\ job.code = 400
         /\ job.reason = "No litter detected."
         /\ job'.pc = "done" )
       => /\ reports'[job.rid].status = "no-litter"
          /\ ~reports'[job.rid].is_detected
          /\ reports'[job.rid].results.status = "no-litter"
          /\ detections' = detections]_vars

\* C14: every report created by an accepted submission has exactly one
\* fingerprint row in every later state, and no step modifies a fingerprint
\* row's hash or embedding (or removes the row).
C14_OneImmutableFingerprint ==
    [][/\ \A r \in 1..Len(reports') :
             Cardinality({i \in 1..Len(fingerprints') :
                             fingerprints'[i].report_id = r}) = 1
       /\ \A i \in 1..Len(fingerprints) :
             /\ i <= Len(fingerprints')
             /\ fingerprints'[i] = fingerprints[i]]_vars

\* C14 witness: two submissions were accepted, the later one with another
\* hash, and a detection run on the first report has just succeeded.
C14_Witness ==
    /\ Len(reports) = 2
    /\ Len(fingerprints) = 2
    /\ fingerprints[1].phash # fingerprints[2].phash
    /\ resp.op = "create_litter_detection"
    /\ resp.code = 200
    /\ resp.ids = {1}

\* C15: index inserts are serialized: at no time are two tasks of the pool
\* inside the insert section (add_with_ids followed by write_index).
C15_InsertsSerialized ==
    Cardinality(InInsert) <= 1

\* C16: when an insert task completes, the index file holds the id it
\* inserted and the ids of all the inserts that completed before it.
C16_FileHoldsCompletedInserts ==
    [][\A t \in TaskIds :
          (faiss.tasks[t].pc # "done" /\ faiss'.tasks[t].pc = "done")
             => /\ faiss'.file.state = "ok"
                /\ faiss.tasks[t].id \in faiss'.file.ids
                /\ \A u \in TaskIds :
                      faiss.tasks[u].pc = "done" => faiss.tasks[u].id \in faiss'.file.ids]_vars

\* C17: a failure of the background index insert (in loading the index, in
\* add_with_ids or in write_index) is not surfaced to process_report: the
\* step that fails changes neither the job nor any report or fingerprint,
\* and the job goes from submitting the insert straight to detection.
C17_IndexFailureNotSurfaced ==
    [][/\ \A t \in TaskIds :
             (faiss.tasks[t].pc # "failed" /\ faiss'.tasks[t].pc = "failed")
                => job' = job /\ reports' = reports /\ fingerprints' = fingerprints
       /\ (job.pc = "index" /\ job' # job)
             => /\ job'.pc = "detect"
                /\ reports' = reports
                /\ fingerprints' = fingerprints]_vars

\* C17 witness: the insert submitted for report 1 has failed, and the job has
\* finished after a successful detection, the fingerprint still in place.
C17_Witness ==
    /\ Len(faiss.tasks) = 1
    /\ faiss.tasks[1].id = 1
    /\ faiss.tasks[1].pc = "failed"
    /\ job.pc = "done"
    /\ job.rid = 1
    /\ job.code = 200
    /\ reports[1].results.status = "completed"
    /\ Len(fingerprints) = 1
    /\ fingerprints[1].report_id = 1

\* C18: however the threads calling get_ort_session interleave, the session
\* is constructed at most once, exactly once as soon as a call has returned,
\* and every caller is returned that same session.
C18_SessionBuiltOnce ==
    /\ ort.built <= 1
    /\ \A c \in 1..MaxCallers :
          ort.callers[c].pc = "done"
             => /\ ort.built = 1
                /\ ort.callers[c].got = 1
                /\ ort.callers[c].got = ort.session

\* C18 witness: two threads raced through the first test; one constructed the
\* session, the other found it under the lock, and both have returned.
C18_Witness ==
    /\ ort.callers[1].pc = "done"
    /\ ort.callers[1].path = "built"
    /\ ort.callers[2].pc = "done"
    /\ ort.callers[2].path = "found"
    /\ ort.callers[1].got = ort.callers[2].got

\* C19: the job's download loop makes at most three GETs, makes a further GET
\* only after a 5xx response or a transport exception, and goes on to the
\* embedding only when some GET answered 200.
C19_RetryOnlyAfterServerError ==
    /\ Len(job.gets) <= MaxAttempts
    /\ \A i \in 1..(Len(job.gets) - 1) :
          \/ job.gets[i] = TransportError
          \/ 500 <= job.gets[i] /\ job.gets[i] < 600
    /\ (\A i \in 1..Len(job.gets) : job.gets[i] # 200)
          => job.pc \in {"idle", "download", "done"}

\* the number of unit cells of a w x h image that some box covers: the area
\* of the union of boxes with integer corners
C20_UnionArea(boxes, w, h) ==
    Cardinality({c \in (0..(w - 1)) \X (0..(h - 1)) :
                   \E i \in 1..Len(boxes) :
                      /\ boxes[i][1] <= c[1] /\ c[1] < boxes[i][3]
                      /\ boxes[i][2] <= c[2] /\ c[2] < boxes[i][4]})

\* the level the severity policy gives: the count level, raised by the share
\* of the image that the union of the boxes covers
C20_Policy(total_count, boxes, size) ==
    LET covered == C20_UnionArea(boxes, size[1], size[2])
        img_area == size[1] * size[2]
        level == CountSeverity(total_count)
    IN IF total_count = 0 THEN "none"
       ELSE IF covered * 10 > img_area THEN "high"
       ELSE IF covered * 20 > img_area /\ level = "low" THEN "medium"
       ELSE level

\* C20: determine_severity returns none for 0 objects, otherwise the count
\* level, raised to high when the union of the boxes covers more than 10% of
\* the image, or from low to medium when it covers more than 5%.
C20_SeverityFollowsUnionCoverage ==
    resp.op = "determine_severity"
       => resp.reason = C20_Policy(resp.args[1], resp.args[2], resp.args[3])

\* the order none < low < medium < high
C21_Rank(level) ==
    CASE level = "none" -> 0
      [] level = "low" -> 1
      [] level = "medium" -> 2
      [] level = "high" -> 3

\* C21: of any two calls of determine_severity, one with the same boxes and
\* image size and a count at least as large, or with the same count and a
\* density (summed box area over image area) at least as large, returns a
\* level at least as high; and a call with a positive count never returns
\* less than its count level.
C21_SeverityMonotone ==
    [][(resp.op = "determine_severity" /\ resp'.op = "determine_severity")
         => LET a == resp.args
                b == resp'.args
                area_a == a[3][1] * a[3][2]
                area_b == b[3][1] * b[3][2]
            IN /\ (a[2] = b[2] /\ a[3] = b[3] /\ a[1] <= b[1])
                     => C21_Rank(resp.reason) <= C21_Rank(resp'.reason)
               /\ (a[1] = b[1] /\ a[2] # <<>> /\ b[2] # <<>>
                     /\ BoxesArea(a[2]) * area_b <= BoxesArea(b[2]) * area_a)
                     => C21_Rank(resp.reason) <= C21_Rank(resp'.reason)
               /\ b[1] > 0
                     => C21_Rank(CountSeverity(b[1])) <= C21_Rank(resp'.reason)]_vars

\* C21 witness: a call whose density lifted a low count level to high.
C21_Witness ==
    /\ resp.op = "determine_severity"
    /\ resp.args[1] > 0
    /\ CountSeverity(resp.args[1]) = "low"
    /\ resp.reason = "high"

\* C22: no two boxes kept by _nms have an IoU above the threshold, and _nms
\* applied to the kept boxes with their scores keeps every one of them.
C22_NmsKeepsCompatibleBoxes ==
    resp.op = "_nms"
       => LET boxes == resp.args[1]
              scores == resp.args[2]
              keep == resp.args[3]
              kept_boxes == [k \in 1..Len(keep) |-> boxes[keep[k]]]
              kept_scores == [k \in 1..Len(keep) |-> scores[keep[k]]]
              again == Nms(kept_boxes, kept_scores)
          IN /\ \A k, l \in 1..Len(keep) :
                   k # l => /\ keep[k] # keep[l]
                            /\ Intersection(kept_boxes[k], kept_boxes[l]) * 100
                                  <= IOU_THRESH_PCT
                                       * (BoxArea(kept_boxes[k]) + BoxArea(kept_boxes[l])
                                            - Intersection(kept_boxes[k], kept_boxes[l]))
             /\ {again[k] : k \in 1..Len(again)} = 1..Len(keep)
             /\ Len(again) = Len(keep)

\* C22 witness: a call that suppressed a box and kept at least two.
C22_Witness ==
    /\ resp.op = "_nms"
    /\ Len(resp.args[3]) >= 2
    /\ Len(resp.args[3]) < Len(resp.args[1])

\* C23: a box inside the image, carried into the letterboxed image as
\* _letterbox_resize resizes and pads it and back through the inverse remap,
\* comes back with every coordinate less than one pixel from where it was.
C23_RoundTripWithinOnePixel ==
    resp.op = "letterbox"
       => \A k \in 1..4 :
             LET v == resp.args[3][k]
                 q == resp.args[4][k]
             IN /\ v * q.d - q.n < q.d
                /\ q.n - v * q.d < q.d

\* C24: once cluster suggestions have been materialized (reconcile_clusters,
\* or the create_from_suggestion operation), every suggestion has its Group,
\* the one named after the cluster, and every member Report of the suggestion
\* has that Group's id as group_id and is_grouped = true.
C24_MaterializedSuggestionsHaveGroups ==
    resp.op \in {"reconcile_clusters", "create_from_suggestion"}
       => LET sugg == GetClusterSuggestions(reports)
          IN \A i \in DOMAIN sugg :
                LET g == GroupNamed(groups, ClusterName(sugg[i].cluster_id))
                IN /\ g # NULL
                   /\ \A r \in sugg[i].members :
                         reports[r].group_id = g /\ reports[r].is_grouped

\* C25: whenever no run is in progress, a Report that has Detection rows
\* caches the severity_level of the most recently created of them.
C25_SeverityOfLatestDetection ==
    job.pc \in {"idle", "done"}
       => \A rid \in ReportIds :
             LET rows == {d \in 1..Len(detections) : detections[d].litter_report_id = rid}
             IN rows # {}
                   => \E d \in rows :
                         /\ \A e \in rows : e <= d
                         /\ reports[rid].severity = detections[d].severity

\* C26: when no Report is ungrouped, get_cluster_suggestions returns no
\* suggestion, and reconcile_clusters answers without an error and leaves
\* every Group and every Report as it was.
C26_NothingToClusterChangesNothing ==
    [][(\A r \in ReportIds : reports[r].group_id # NULL /\ reports[r].is_grouped)
         => /\ resp'.op = "get_cluster_suggestions" => resp'.ids = {}
            /\ resp'.op = "reconcile_clusters"
                  => /\ resp'.code = 200
                     /\ reports' = reports
                     /\ groups' = groups]_vars

\* C27: an image request of fetch_image_bytes or of process_report carries
\* the Authorization header only when the host of the requested URL is the
\* host of the configured upload origin.
C27_TokenOnlyToUploadHost ==
    (resp.op \in {"fetch_image_bytes GET", "process_report GET"} /\ resp.args[3])
       => resp.args[1].host = UploadHost

C29_OneEventPerGroup ==
    \A g \in GroupIds :
       Cardinality({e \in 1..Len(events) : events[e].litter_group_id = g}) <= 1

\* C30: a Report has is_grouped = true exactly when its group_id is non-null
\* and is the id of an existing Group.
C30_GroupedIffInGroup ==
    \A r \in ReportIds :
       reports[r].is_grouped <=> (reports[r].group_id # NULL /\ reports[r].group_id \in GroupIds)

====
